---- MODULE Spec2Model ----
(***************************************************************************)
(* The terminal selection menus of the repository: CopilotSelector         *)
(* (select_copilots.py) and RobustCopilotSelector                          *)
(* (select_copilots_interactive.py).  One behaviour is one call of run()   *)
(* on one selector; `variant' says which class the selector is.            *)
(*                                                                         *)
(* Strings are sequences of one-character strings.  The characters a       *)
(* terminal read can deliver are one-character strings for the printable   *)
(* ones and the names <ESC> <CR> <LF> <DEL> <BS> <ETX> <TAB> for the       *)
(* control characters; "" is what read() returns at end of input.          *)
(***************************************************************************)
EXTENDS Integers, Sequences, FiniteSets, TLC

(* ------------------------------ bounds -------------------------------- *)
\* longest of the item lists explored with any number of keystrokes
MaxItems == 2
\* longest search term typed in SearchEntry
MaxTerm == 3
\* keystrokes explored in a session over the large (startup prompt) list
MaxKeys == 6

(* ------------------------- program constants -------------------------- *)
StartupThreshold == 20
PageStep == 10
DefaultRows == 24
DefaultCols == 80
HeaderLines == 8
FooterLinesCS == 3
FooterLinesRCS == 2

(* ------------------------------ strings ------------------------------- *)
\* str.lower() on one character
LowerChar(c) ==
    CASE c = "A" -> "a"
      [] c = "B" -> "b"
      [] c = "Q" -> "q"
      [] c = "L" -> "l"
      [] c = "U" -> "u"
      [] OTHER -> c

\* str.lower()
Lower(s) == [i \in DOMAIN s |-> LowerChar(s[i])]

IsSpace(c) == c = " "

\* " ".join(parts)
RECURSIVE JoinSpace(_)
JoinSpace(parts) ==
    IF parts = <<>> THEN <<>>
    ELSE IF Len(parts) = 1 THEN parts[1]
    ELSE parts[1] \o <<" ">> \o JoinSpace(Tail(parts))

\* str.split(): the maximal runs of non-whitespace characters, in order
RECURSIVE SplitFrom(_, _, _)
SplitFrom(s, i, cur) ==
    IF i > Len(s)
    THEN IF cur = <<>> THEN <<>> ELSE <<cur>>
    ELSE IF IsSpace(s[i])
         THEN IF cur = <<>> THEN SplitFrom(s, i + 1, <<>>)
              ELSE <<cur>> \o SplitFrom(s, i + 1, <<>>)
         ELSE SplitFrom(s, i + 1, Append(cur, s[i]))

Split(s) == SplitFrom(s, 1, <<>>)

\* `term in searchable_text' on str: substring test
Contains(text, term) ==
    \E i \in 0..(Len(text) - Len(term)) :
        \A j \in 1..Len(term) : text[i + j] = term[j]

Range(s) == {s[i] : i \in DOMAIN s}

\* seq[i] with Python's negative indices
PyInRange(s, i) == -Len(s) <= i /\ i < Len(s)
PyAt(s, i) == IF i >= 0 THEN s[i + 1] ELSE s[Len(s) + i + 1]

Max(a, b) == IF a >= b THEN a ELSE b
Min(a, b) == IF a <= b THEN a ELSE b

(* ------------------------------- items -------------------------------- *)
\* the item records the lists are built from: the first has its letters in
\* two fields (non-adjacent in the searchable text), the second has one
ItemBA == [name |-> <<"b">>, description |-> <<"A">>, copilot_id |-> <<>>,
           skills |-> <<>>]
ItemA  == [name |-> <<"a">>, description |-> <<>>, copilot_id |-> <<>>,
           skills |-> <<>>]
ItemPool == {ItemBA, ItemA}

\* a key the JSON object does not have, and dict.get(key, default)
Missing == <<"<missing>">>
Get(value, default) == IF value = Missing THEN default ELSE value

\* the default name of get('name', 'Unknown')
Unknown == <<"U", "n", "k", "n", "o", "w", "n">>

\* an item without a name, and an item that is named like the default
ItemNoName == [name |-> Missing, description |-> <<"B">>, copilot_id |-> Missing,
               skills |-> <<>>]
ItemUnknown == [name |-> Unknown, description |-> Missing, copilot_id |-> Missing,
                skills |-> <<>>]

\* a list in which two items share a name group and one has its own
MixedList == <<ItemNoName, ItemA, ItemUnknown>>

\* the list of n items that alternates the two records, from either one
Alternating(first, n) ==
    [i \in 1..n |-> IF (i + first) % 2 = 1 THEN ItemBA ELSE ItemA]

\* the list that is long enough for the startup prompt
LargeList == Alternating(0, StartupThreshold + 1)

\* the lists a selector is built on; main() rejects the empty list before a
\* selector is built
ItemLists ==
    {Alternating(first, n) : first \in {0, 1}, n \in 1..MaxItems} \cup {LargeList}

(* ------------------------------- state -------------------------------- *)
VARIABLES
    variant,          \* "CS": CopilotSelector, "RCS": RobustCopilotSelector
    copilots,         \* self.copilots
    tsize,            \* the size the terminal reports
    entry_mode,       \* the terminal mode when run() was called
    term,             \* the terminal mode now
    old_settings,     \* run's old_settings (RobustCopilotSelector), "unset" before
    selected,         \* self.selected
    current_index,    \* self.current_index
    search_term,      \* self.search_term
    filtered_indices, \* self.filtered_indices
    view_offset,      \* self.view_offset
    pc,               \* where run() is
    result,           \* the list run() returned
    keysRead,         \* keystrokes read so far in a session over the large list
    searchable_texts, \* self.searchable_texts
    name_groups,      \* self.name_groups
    main,             \* the process around the selector: main() and what it wrote
    eof,              \* the keystroke source is at end of input
    server,           \* server.py: the initialization of the skill tools
    tool              \* answerrocket_mcp: one call of a skill tool

vars == <<variant, copilots, tsize, entry_mode, term, old_settings, selected,
          current_index, search_term, filtered_indices, view_offset, pc,
          result, keysRead, searchable_texts, name_groups, main, eof,
          server, tool>>

(* --------------------------- construction ----------------------------- *)
\* __init__: the searchable text of one item
SearchableText(c) ==
    JoinSpace(<< Lower(Get(c.name, <<>>)), Lower(Get(c.description, <<>>)),
                 Lower(Get(c.copilot_id, <<>>)),
                 JoinSpace([k \in DOMAIN c.skills |->
                               Lower(Get(c.skills[k].name, <<>>))]) >>)

\* __init__: self.searchable_texts
BuildSearchableTexts(cs) == [i \in DOMAIN cs |-> SearchableText(cs[i])]

\* copilot.get('name', 'Unknown')
NameOf(c) == Get(c.name, Unknown)

\* the 0-based positions of the items of cs named n, ascending
RECURSIVE PositionsNamed(_, _, _)
PositionsNamed(cs, n, p) ==
    IF p >= Len(cs) THEN <<>>
    ELSE (IF NameOf(cs[p + 1]) = n THEN <<p>> ELSE <<>>)
         \o PositionsNamed(cs, n, p + 1)

\* __init__: self.name_groups, with the keys the loop inserted
BuildNameGroups(cs) ==
    [n \in {NameOf(cs[i]) : i \in DOMAIN cs} |-> PositionsNamed(cs, n, 0)]

\* a marker on every row
duplicate_indicator_all(groups, c) ==
    NameOf(c) \in DOMAIN groups /\ Len(groups[NameOf(c)]) >= 1

\* get_display_info: whether the row of item c gets the duplicate marker
duplicate_indicator(groups, c) ==
    NameOf(c) \in DOMAIN groups /\ Len(groups[NameOf(c)]) > 1

\* list(range(n)): positions are 0-based as in the source
RangeList(n) == [i \in 1..n |-> i - 1]

(* ------------------------------ filter -------------------------------- *)
\* a filter that keeps an item when some token is a substring
Matches_any(texts, p, search_terms) ==
    LET searchable_text == texts[p + 1]
    IN  \E t \in Range(search_terms) : Contains(searchable_text, t)

\* a filter that keeps no item when the term has no token
Matches_needs_token(texts, p, search_terms) ==
    LET searchable_text == texts[p + 1]
    IN  /\ search_terms # <<>>
        /\ \A t \in Range(search_terms) : Contains(searchable_text, t)

\* the item at 0-based position p matches when every token is a substring
Matches(texts, p, search_terms) ==
    LET searchable_text == texts[p + 1]
    IN  \A t \in Range(search_terms) : Contains(searchable_text, t)

\* for idx, searchable_text in enumerate(self.searchable_texts)
RECURSIVE SelectPositions(_, _, _)
SelectPositions(texts, p, search_terms) ==
    IF p >= Len(texts) THEN <<>>
    ELSE (IF Matches(texts, p, search_terms) THEN <<p>> ELSE <<>>)
         \o SelectPositions(texts, p + 1, search_terms)

\* a filter that shows nothing for the empty term
FilterIndices_none_on_empty(cs, text) ==
    IF text = <<>> THEN <<>>
    ELSE SelectPositions(searchable_texts, 0, Split(Lower(text)))

\* a filter that appends a position once for every token it contains
RECURSIVE PerToken(_, _, _)
PerToken(cs, p, search_terms) ==
    IF p >= Len(cs) THEN <<>>
    ELSE LET hits == {k \in DOMAIN search_terms :
                        Contains(SearchableText(cs[p + 1]), search_terms[k])}
         IN  [k \in 1..Cardinality(hits) |-> p] \o PerToken(cs, p + 1, search_terms)

FilterIndices_per_token(cs, text) ==
    IF text = <<>> THEN RangeList(Len(cs))
    ELSE PerToken(cs, 0, Split(Lower(text)))

\* filter_copilots: the new filtered_indices
FilterIndices(cs, text) ==
    IF text = <<>> THEN RangeList(Len(cs))
    ELSE SelectPositions(searchable_texts, 0, Split(Lower(text)))

\* a re-filter that always sends the cursor to the first row
ClampIndex_reset(ci, fi) == 0

\* filter_copilots: the new current_index
ClampIndex(ci, fi) ==
    IF ci >= Len(fi) THEN Max(0, Len(fi) - 1) ELSE ci


(* ------------------------------ display ------------------------------- *)
\* the terminal's size as the OS reports it; NoSize: the query raises
NoSize == [lines |-> 0, columns |-> 0]
SmallSize == [lines |-> 12, columns |-> 14]
\* a terminal with no line left for the list once header and footer are
\* taken off, whichever of its two dimensions the selector reads as rows
TinySize == [lines |-> 10, columns |-> 11]
\* the sizes a session is explored with
TermSizes == {SmallSize}

\* get_terminal_size: the pair the method returns, named as display names
\* its parts.  os.get_terminal_size() is (columns, lines) and
\* CopilotSelector unpacks it as `rows, cols'; shutil.get_terminal_size()
\* is (columns, lines) too and RobustCopilotSelector unpacks `cols, rows'.
get_terminal_size(v, size) ==
    IF size = NoSize THEN [rows |-> DefaultRows, cols |-> DefaultCols]
    ELSE IF v = "CS" THEN [rows |-> size.columns, cols |-> size.lines]
    ELSE [rows |-> size.lines, cols |-> size.columns]

available_lines(v, size) ==
    get_terminal_size(v, size).rows - HeaderLines
        - (IF v = "CS" THEN FooterLinesCS ELSE FooterLinesRCS)

\* display: the new view_offset
DisplayOffset(v, size, ci, vo) ==
    IF ci < vo THEN ci
    ELSE IF ci >= vo + available_lines(v, size) THEN ci - available_lines(v, size) + 1
    ELSE vo

\* display: the rows printed for the list, one per display_idx until
\* actual_idx runs past the list; cursor says whether the row has the marker
display_rows(v, size, fi, ci, vo) ==
    IF fi = <<>> THEN {}
    ELSE { [actual_idx |-> vo + display_idx,
            copilot_idx |-> PyAt(fi, vo + display_idx),
            cursor |-> (vo + display_idx = ci)] :
             display_idx \in { d \in 0..(available_lines(v, size) - 1) :
                                 vo + d < Len(fi) } }

(* ------------------------------ row text ------------------------------ *)
\* the characters display prints that are not ASCII, and the styling codes
\* of get_display_info: \033[1;33m and \033[0m
Bullet == "<bullet>"
WarningSign == <<"<warning>", "<vs16>">>
Esc == "<ESC>"
HighlightOn == <<Esc, "[", "1", ";", "3", "3", "m">>
HighlightOff == <<Esc, "[", "0", "m">>
Ellipsis == <<".", ".", ".">>
NoDescription ==
    <<"N", "o", " ", "d", "e", "s", "c", "r", "i", "p", "t", "i", "o", "n">>
UnknownId == <<"U", "n", "k", "n", "o", "w", "n", " ", "I", "D">>
MaxDescLen == 35

\* s[:n] with Python's negative bounds
PyTake(s, n) ==
    IF n >= 0 THEN SubSeq(s, 1, Min(n, Len(s)))
    ELSE SubSeq(s, 1, Max(Len(s) + n, 0))

\* str(n) for the skill counts of the lists
DigitText(n) ==
    CASE n = 0 -> <<"0">> [] n = 1 -> <<"1">> [] n = 2 -> <<"2">>
      [] OTHER -> <<"3">>

\* copilot_id.split('-')[0]
RECURSIVE BeforeDash(_)
BeforeDash(s) ==
    IF s = <<>> \/ Head(s) = "-" THEN <<>>
    ELSE <<Head(s)>> \o BeforeDash(Tail(s))

\* re.compile(re.escape(st), re.IGNORECASE) matches text at position i
MatchAt(text, i, st) ==
    /\ i + Len(st) - 1 <= Len(text)
    /\ \A j \in 1..Len(st) : LowerChar(text[i + j - 1]) = LowerChar(st[j])

\* pattern.sub(lambda m: f"\033[1;33m{m.group()}\033[0m", text) from i on
RECURSIVE Highlight(_, _, _)
Highlight(text, i, st) ==
    IF i > Len(text) THEN <<>>
    ELSE IF MatchAt(text, i, st)
         THEN HighlightOn \o SubSeq(text, i, i + Len(st) - 1) \o HighlightOff
                \o Highlight(text, i + Len(st), st)
         ELSE <<text[i]>> \o Highlight(text, i + 1, st)

\* get_display_info for item c under search term st; active is
\* self.search_mode_active
get_display_info(groups, c, st, active) ==
    LET name == Get(c.name, Unknown)
        description0 == Get(c.description, NoDescription)
        skill_count == Len(Get(c.skills, <<>>))
        copilot_id == Get(c.copilot_id, UnknownId)
        indicator == IF duplicate_indicator(groups, c)
                     THEN <<" ">> \o WarningSign ELSE <<>>
        description == IF Len(description0) > MaxDescLen
                       THEN PyTake(description0, MaxDescLen - 3) \o Ellipsis
                       ELSE description0
        skill_text == DigitText(skill_count) \o <<" ", "s", "k", "i", "l", "l">>
                        \o (IF skill_count # 1 THEN <<"s">> ELSE <<>>)
        id_short == IF "-" \in Range(copilot_id) THEN BeforeDash(copilot_id)
                    ELSE PyTake(copilot_id, 8)
        display_text == name \o indicator \o <<" ", Bullet, " ">> \o skill_text
                          \o <<" ", Bullet, " ">> \o description
                          \o <<" ", Bullet, " ", "I", "D", ":", " ">> \o id_short
    IN  IF st # <<>> /\ active THEN Highlight(display_text, 1, st)
        ELSE display_text

\* the length of the run of characters of [0-9;] of s from position i
RECURSIVE CodeRun(_, _)
CodeRun(s, i) ==
    IF i <= Len(s) /\ s[i] \in {"0", "1", "2", "3", "4", "5", "6", "7", "8", "9", ";"}
    THEN 1 + CodeRun(s, i + 1) ELSE 0

\* re.sub(r'\033\[[0-9;]*m', '', s) from position i on
RECURSIVE StripAnsi(_, _)
StripAnsi(s, i) ==
    IF i > Len(s) THEN <<>>
    ELSE LET k == CodeRun(s, i + 2)
         IN  IF /\ s[i] = Esc
                /\ i + 1 <= Len(s) /\ s[i + 1] = "["
                /\ i + 2 + k <= Len(s) /\ s[i + 2 + k] = "m"
             THEN StripAnsi(s, i + 3 + k)
             ELSE <<s[i]>> \o StripAnsi(s, i + 1)

\* display: max_len, whether the row is cut, and the text printed after the
\* cursor and the checkbox
MaxLen(cols) == cols - 8
Truncates(info, cols) ==
    Len(info) > MaxLen(cols) /\ Len(StripAnsi(info, 1)) > MaxLen(cols)
display_info(info, cols) ==
    IF Truncates(info, cols) THEN PyTake(info, MaxLen(cols) - 3) \o Ellipsis
    ELSE info

(* ------------------------------ terminal ------------------------------ *)
\* the modes run() can be called in
EntryModes == {"cooked"}

\* tty.setraw(fd): the mode afterwards
setraw == "raw"

\* termios.tcsetattr(fd, TCSADRAIN, settings): the mode afterwards
tcsetattr(settings) == settings

\* where a terminal call of one keystroke read raises, if anywhere:
\* tty.setraw, the first read, the read of the rest of an escape sequence
Faults == {"none", "setraw", "read", "read2"}

\* get_key: the terminal mode when the method exits (by return or by an
\* exception); old_settings (saved) is read at entry and the finally clause
\* writes it back
CS_get_key_mode(mode, fault) ==
    LET saved == mode
        in_try == IF fault = "setraw" THEN mode ELSE setraw
    IN  tcsetattr(saved)

\* get_char: as get_key, on stdin
RCS_get_char_mode(mode, fault) ==
    LET saved == mode
        in_try == IF fault = "setraw" THEN mode ELSE setraw
    IN  tcsetattr(saved)

\* the body of RobustCopilotSelector.run's loop up to the dispatch: the
\* mode when the reads are over or one of them has raised.  setraw and
\* tcsetattr bracket each read without a finally clause.
RCS_loop_read_mode(mode, saved, ch, fault) ==
    IF fault = "setraw" THEN mode
    ELSE IF fault = "read" THEN setraw
    ELSE IF ch = "<ESC>" /\ fault = "read2" THEN setraw
    ELSE tcsetattr(saved)

\* whether that read raises
RCS_loop_read_raises(ch, fault) ==
    fault \in {"setraw", "read"} \/ (ch = "<ESC>" /\ fault = "read2")

\* run without its finally clause
RCS_run_finally_skip(mode, saved) == mode

\* the finally clause of RobustCopilotSelector.run: tcsetattr with the
\* saved settings, any error (old_settings never assigned) swallowed
RCS_run_finally(mode, saved) ==
    IF saved = "unset" THEN mode ELSE tcsetattr(saved)

(* -------------------------------- keys -------------------------------- *)
\* what read(2) can deliver after an escape character
NextChars == {"[A", "[B", "[5", "[6", "", " <CR>"}

\* get_key: the value returned for first character ch and rest nx
CS_get_key(ch, nx) ==
    IF ch = "<ESC>"
    THEN CASE nx = "[A" -> "UP"
           [] nx = "[B" -> "DOWN"
           [] nx = "[5" -> "PGUP"
           [] nx = "[6" -> "PGDN"
           [] OTHER -> "ESC"
    ELSE ch

\* RobustCopilotSelector.run: the command the char / next_chars tests select
RCS_key(ch, nx) ==
    IF ch = "<ESC>"
    THEN CASE nx = "[A" -> "UP"
           [] nx = "[B" -> "DOWN"
           [] OTHER -> "ESC"
    ELSE ch

\* a printable test that leaves `q' to the commands
Printable_no_q(ch) == ch \in {"a", "b", "B", " ", "/", "k", "j", "n", "d", "t"}

\* ord(key) >= 32 and ord(key) <= 126
Printable(ch) == ch \in {"a", "b", "B", "q", " ", "/", "k", "j", "n", "d", "t"}

(* ---------------------------- selection ------------------------------- *)
\* a toggle that only ever adds
toggle_selection_add(sel, fi, ci) ==
    IF fi = <<>> THEN sel ELSE sel \cup {PyAt(fi, ci)}

\* a toggle of the cursor's row number in place of the position on that row
toggle_selection_row(sel, fi, ci) ==
    IF fi = <<>> THEN sel
    ELSE IF ci \in sel THEN sel \ {ci} ELSE sel \cup {ci}

\* toggle_selection (and the Space branch of RobustCopilotSelector.run)
toggle_selection(sel, fi, ci) ==
    IF fi = <<>> THEN sel
    ELSE LET copilot_idx == PyAt(fi, ci)
         IN  IF copilot_idx \in sel THEN sel \ {copilot_idx}
             ELSE sel \cup {copilot_idx}

\* filtered_indices[current_index] raises IndexError
toggle_raises(fi, ci) == fi # <<>> /\ ~PyInRange(fi, ci)

\* a select-all that stores the positions as the 1-based numbers displayed
select_all_shifted(sel, fi) == sel \cup {fi[k] + 1 : k \in DOMAIN fi}

\* key `a': for idx in filtered_indices: selected.add(idx)
RECURSIVE select_all(_, _)
select_all(sel, fi) ==
    IF fi = <<>> THEN sel ELSE select_all(sel \cup {Head(fi)}, Tail(fi))

\* a deselect that clears the whole selection
deselect_all_clear(sel, fi) == {}

\* key `n' (CopilotSelector) / `d' (RobustCopilotSelector):
\* for idx in filtered_indices: selected.discard(idx)
RECURSIVE deselect_all(_, _)
deselect_all(sel, fi) ==
    IF fi = <<>> THEN sel ELSE deselect_all(sel \ {Head(fi)}, Tail(fi))

\* a toggle-all that only ever adds
toggle_all_add(sel, fi) == sel \cup Range(fi)

\* key `t' (CopilotSelector only)
RECURSIVE toggle_all(_, _)
toggle_all(sel, fi) ==
    IF fi = <<>> THEN sel
    ELSE toggle_all(IF Head(fi) \in sel THEN sel \ {Head(fi)}
                    ELSE sel \cup {Head(fi)}, Tail(fi))

\* one deselect key for both selectors
DeselectKey_n(v) == "n"

\* the key that deselects all shown
DeselectKey(v) == IF v = "CS" THEN "n" ELSE "d"

\* the selected set after key k in Browsing
SelectedAfter(v, k, sel, fi, ci) ==
    CASE k = " " -> toggle_selection(sel, fi, ci)
      [] k = "a" -> select_all(sel, fi)
      [] k = DeselectKey(v) -> deselect_all(sel, fi)
      [] k = "t" /\ v = "CS" -> toggle_all(sel, fi)
      [] OTHER -> sel

\* the cursor after key k in Browsing
IndexAfter(v, k, ci, fi) ==
    CASE k \in {"UP", "k"} -> IF ci > 0 THEN ci - 1 ELSE ci
      [] k \in {"DOWN", "j"} -> IF ci < Len(fi) - 1 THEN ci + 1 ELSE ci
      [] k = "PGUP" /\ v = "CS" -> Max(0, ci - PageStep)
      [] k = "PGDN" /\ v = "CS" -> Min(Len(fi) - 1, ci + PageStep)
      [] OTHER -> ci

\* sorted(self.selected)
RECURSIVE sorted(_)
sorted(S) ==
    IF S = {} THEN <<>>
    ELSE LET m == CHOOSE x \in S : \A y \in S : x <= y
         IN  <<m>> \o sorted(S \ {m})

\* the selected items in set-iteration order, here descending
confirm_result_unsorted(cs, sel) ==
    LET order == sorted(sel)
    IN  [k \in DOMAIN order |-> PyAt(cs, order[Len(order) + 1 - k])]

\* a confirm that returns only the selected items the filter shows
confirm_result_shown(cs, sel) ==
    LET order == sorted(sel \cap Range(filtered_indices))
    IN  [k \in DOMAIN order |-> PyAt(cs, order[k])]

\* [self.copilots[i] for i in sorted(self.selected)]
confirm_result(cs, sel) ==
    LET order == sorted(sel) IN [k \in DOMAIN order |-> PyAt(cs, order[k])]

\* a cancel that hands back what is selected
cancel_result_keep(cs, sel) == confirm_result(cs, sel)

\* return [] on q / Ctrl-C
cancel_result(cs, sel) == <<>>

\* the value run returns from its `except Exception' clause
CS_error_result == <<>>


(* ------------------------- line-based fallback ------------------------ *)
\* str.strip()
RECURSIVE LStrip(_)
LStrip(s) == IF s # <<>> /\ IsSpace(Head(s)) THEN LStrip(Tail(s)) ELSE s

RECURSIVE RStrip(_)
RStrip(s) ==
    IF s # <<>> /\ IsSpace(s[Len(s)]) THEN RStrip(SubSeq(s, 1, Len(s) - 1)) ELSE s

Strip(s) == RStrip(LStrip(s))

\* str.split(','): the pieces between commas, empty pieces included
RECURSIVE SplitCommaFrom(_, _, _)
SplitCommaFrom(s, i, cur) ==
    IF i > Len(s) THEN <<cur>>
    ELSE IF s[i] = "," THEN <<cur>> \o SplitCommaFrom(s, i + 1, <<>>)
    ELSE SplitCommaFrom(s, i + 1, Append(cur, s[i]))

SplitComma(s) == SplitCommaFrom(s, 1, <<>>)

Digits == {"0", "1", "2", "3", "4", "5", "6", "7", "8", "9"}
DigitVal(c) ==
    CASE c = "0" -> 0 [] c = "1" -> 1 [] c = "2" -> 2 [] c = "3" -> 3
      [] c = "4" -> 4 [] c = "5" -> 5 [] c = "6" -> 6 [] c = "7" -> 7
      [] c = "8" -> 8 [] c = "9" -> 9

RECURSIVE DigitsVal(_, _)
DigitsVal(s, acc) ==
    IF s = <<>> THEN acc ELSE DigitsVal(Tail(s), 10 * acc + DigitVal(Head(s)))

\* int(x): ok is FALSE where int raises ValueError
ParseInt(x) ==
    LET t == Strip(x)
        neg == t # <<>> /\ Head(t) = "-"
        body == IF t # <<>> /\ Head(t) \in {"-", "+"} THEN Tail(t) ELSE t
    IN  IF body # <<>> /\ Range(body) \subseteq Digits
        THEN [ok |-> TRUE,
              val |-> IF neg THEN 0 - DigitsVal(body, 0) ELSE DigitsVal(body, 0)]
        ELSE [ok |-> FALSE, val |-> 0]

\* a bounds test that lets Python's negative indices through
RECURSIVE KeepValid_negative(_, _)
KeepValid_negative(cs, indices) ==
    IF indices = <<>> THEN <<>>
    ELSE (IF PyInRange(cs, Head(indices))
          THEN <<PyAt(cs, Head(indices))>> ELSE <<>>)
         \o KeepValid_negative(cs, Tail(indices))

RECURSIVE KeepValid(_, _)
KeepValid(cs, indices) ==
    IF indices = <<>> THEN <<>>
    ELSE (IF 0 <= Head(indices) /\ Head(indices) < Len(cs)
          THEN <<PyAt(cs, Head(indices))>> ELSE <<>>)
         \o KeepValid(cs, Tail(indices))

\* fallback_selection: the list returned for the line read by input()
fallback_selection(cs, line) ==
    LET selection == Strip(line)
        pieces == SplitComma(selection)
        parsed == [k \in DOMAIN pieces |-> ParseInt(pieces[k])]
    IN  IF Lower(selection) = <<"a", "l", "l">> THEN cs
        ELSE IF \E k \in DOMAIN parsed : ~parsed[k].ok THEN cs
        ELSE KeepValid(cs, [k \in DOMAIN parsed |-> parsed[k].val - 1])

\* the lines typed at the fallback prompt
FallbackLines ==
    { <<"a", "l", "l">>, <<"A", "l", "l">>, <<>>, <<"1">>, <<"2", ",", "1">>,
      <<" ", "1", " ", ",", "3">>, <<"0">>, <<"-", "1">>, <<"9">>,
      <<"1", ",", "1">>, <<"1", ",", "x">> }


(* ------------------------------ sessions ------------------------------ *)
\* the positions of run(): before its first statement, in the search loop it
\* enters from the startup prompt, in a search loop entered with `/', at the
\* read of the main loop, in fallback_selection at input(), and after run()
\* has returned (confirmed, cancelled, failed, fellback) or raised
ExitPcs == {"confirmed", "cancelled", "failed", "fellback", "raised"}
SearchPcs == {"startup_search", "search"}

\* One keystroke read is a triple <<ch, nx, fault>>: the character read
\* first, what read(2) delivers after an escape character, and the terminal
\* call that raises ("none": no call raises).
TypedChars == {"a", "B", " "}
BrowseChars == {"<CR>", "<LF>", "<ETX>", "", " ", "/", "k", "j", "a",
                "n", "d", "t", "q"}
\* `q' is explored as the first character of a term only
SearchChars == {"<ESC>", "<CR>", "<LF>", "<DEL>", "<BS>", "<ETX>", "", "q"}
                   \cup TypedChars
RaisingReads == {<<"", "", "setraw">>, <<"", "", "read">>}
BrowseReads ==
    {<<ch, "", "none">> : ch \in BrowseChars}
        \cup {<<"<ESC>", nx, "none">> : nx \in NextChars}
        \cup {<<"<ESC>", "", "read2">>}
        \cup RaisingReads
SearchReads == {<<ch, "", "none">> : ch \in SearchChars} \cup RaisingReads

\* a selector that is run by a caller other than the scripts' main()
NoMain == [at |-> "none"]
\* no MCP server is part of a selector session
NoServer == [phase |-> "none"]
NoTool == [phase |-> "none"]

Init ==
    /\ variant \in {"CS", "RCS"}
    /\ copilots \in ItemLists
    /\ tsize \in TermSizes
    /\ entry_mode \in EntryModes
    /\ term = entry_mode
    /\ old_settings = "unset"
    /\ selected = {}
    /\ current_index = 0
    /\ search_term = <<>>
    /\ filtered_indices = RangeList(Len(copilots))
    /\ view_offset = 0
    /\ pc = "start"
    /\ result = <<>>
    /\ keysRead = 0
    /\ searchable_texts = BuildSearchableTexts(copilots)
    /\ name_groups = BuildNameGroups(copilots)
    /\ main = NoMain
    /\ eof = FALSE
    /\ server = NoServer
    /\ tool = NoTool

Large == Len(copilots) > StartupThreshold
CanRead == ~Large \/ keysRead < MaxKeys
CountKey == keysRead' = IF Large THEN keysRead + 1 ELSE keysRead

\* read(1) returns the empty string at end of input, and does so from then
\* on; r is the read of this step
EndOfKeys == <<"", "", "none">>
Reads(r) ==
    /\ eof => r = EndOfKeys
    /\ eof' = (eof \/ r = EndOfKeys)
NoRead == eof' = eof

\* a display that shortens the descriptions in the items themselves
Fixed_truncates ==
    /\ copilots' = [i \in DOMAIN copilots |->
                       [copilots[i] EXCEPT !.description = <<>>]]
    /\ UNCHANGED <<variant, tsize, entry_mode, searchable_texts, name_groups, main,
                   server, tool>>

Fixed ==
    UNCHANGED <<variant, copilots, tsize, entry_mode, searchable_texts,
                name_groups, main, server, tool>>
Menu == <<selected, current_index, search_term, filtered_indices, view_offset>>

\* a term change that leaves the filtered list as it was
Refilter_stale(t) ==
    /\ search_term' = t
    /\ UNCHANGED <<filtered_indices, current_index>>
    /\ view_offset' = DisplayOffset(variant, tsize, current_index, 0)

\* filter_copilots followed by the display of the next loop iteration
Refilter(t) ==
    LET fi == FilterIndices(copilots, t)
        ci == ClampIndex(current_index, fi)
    IN  /\ search_term' = t
        /\ filtered_indices' = fi
        /\ current_index' = ci
        /\ view_offset' = DisplayOffset(variant, tsize, ci, 0)

\* a display that also clears the search
Redisplay_clears == selected' = selected /\ Refilter(<<>>)

\* display with nothing else changed
Redisplay ==
    /\ view_offset' = DisplayOffset(variant, tsize, current_index, view_offset)
    /\ UNCHANGED <<selected, current_index, search_term, filtered_indices>>

\* run() ends: where, and with which list
Exit(where, value) ==
    /\ pc' = where
    /\ result' = value
    /\ UNCHANGED Menu

\* where an exception inside run's try block takes the selector
Caught ==
    IF variant = "CS" THEN Exit("failed", CS_error_result)
    ELSE /\ pc' = "fallback"
         /\ UNCHANGED <<result, selected, current_index, search_term,
                        filtered_indices, view_offset>>

(* ------------------------------ Browsing ------------------------------ *)
\* the if/elif chain of the main loop for key k, then display
Dispatch(k) ==
    CASE k \in {"<CR>", "<LF>"} -> Exit("confirmed", confirm_result(copilots, selected))
      [] k \in {"q", "<ETX>"} -> Exit("cancelled", cancel_result(copilots, selected))
      [] k = "/" -> pc' = "search" /\ result' = result /\ Redisplay
      [] k = "ESC" -> pc' = pc /\ result' = result /\ selected' = selected
                      /\ Refilter(<<>>)
      [] k = " " /\ toggle_raises(filtered_indices, current_index) -> Caught
      [] OTHER ->
            /\ pc' = pc /\ result' = result
            /\ selected' = SelectedAfter(variant, k, selected, filtered_indices,
                                         current_index)
            /\ current_index' = IndexAfter(variant, k, current_index, filtered_indices)
            /\ view_offset' = DisplayOffset(variant, tsize, current_index', view_offset)
            /\ UNCHANGED <<search_term, filtered_indices>>

\* get_key raises
CS_get_key_raises(ch, fault) ==
    fault \in {"setraw", "read"} \/ (ch = "<ESC>" /\ fault = "read2")

\* one iteration of CopilotSelector.run's loop, from get_key to display, for
\* the keystroke read r
CS_run_loop_on(r) ==
    /\ variant = "CS" /\ pc = "browsing" /\ CanRead
    /\ Reads(r)
    /\ term' = CS_get_key_mode(term, r[3])
    /\ IF CS_get_key_raises(r[1], r[3])
       THEN Caught
       ELSE Dispatch(CS_get_key(r[1], r[2]))
    /\ CountKey
    /\ UNCHANGED old_settings
    /\ Fixed

CS_run_loop == \E r \in BrowseReads : CS_run_loop_on(r)

\* one iteration of RobustCopilotSelector.run's loop for the keystroke read r
RCS_run_loop_on(r) ==
    /\ variant = "RCS" /\ pc = "browsing" /\ CanRead
    /\ Reads(r)
    /\ LET mode == RCS_loop_read_mode(term, old_settings, r[1], r[3])
       IN  IF RCS_loop_read_raises(r[1], r[3])
           THEN term' = mode /\ Caught
           ELSE /\ Dispatch(RCS_key(r[1], r[2]))
                /\ term' = IF pc' \in ExitPcs
                           THEN RCS_run_finally(mode, old_settings) ELSE mode
    /\ CountKey
    /\ UNCHANGED old_settings
    /\ Fixed

RCS_run_loop == \E r \in BrowseReads : RCS_run_loop_on(r)

(* ----------------------------- SearchEntry ---------------------------- *)
\* live_search_mode: the terminal mode when an iteration of its loop is over
\* (at the next display, or at exit through the finally clause)
CS_live_search_mode_mode(mode, fault) ==
    LET saved == mode
        in_try == IF fault = "setraw" THEN mode ELSE setraw
    IN  tcsetattr(saved)

\* live_search_mode raises in this iteration: a terminal call raises, or
\* ord(key) raises TypeError on the empty string read at end of input
CS_live_search_mode_raises(ch, fault) ==
    fault \in {"setraw", "read"} \/ ch = ""

\* the key tests shared by live_search_mode and handle_search_input, for a
\* character that is read and raises nothing
SearchDispatch(ch) ==
    CASE ch = "<ESC>" ->
            /\ pc' = "browsing" /\ UNCHANGED <<result, selected>>
            /\ Refilter(<<>>)
      [] ch \in {"<CR>", "<LF>"} ->
            /\ pc' = "browsing" /\ UNCHANGED result
            /\ Redisplay
      [] ch \in {"<DEL>", "<BS>"} /\ search_term # <<>> ->
            /\ UNCHANGED <<pc, result, selected>>
            /\ Refilter(SubSeq(search_term, 1, Len(search_term) - 1))
      [] Printable(ch) ->
            /\ UNCHANGED <<pc, result, selected>>
            /\ Refilter(Append(search_term, ch))
      [] OTHER ->
            /\ UNCHANGED <<pc, result>>
            /\ IF variant = "CS" THEN Redisplay ELSE UNCHANGED Menu

\* the search term stays within the explored length
CanType(ch) ==
    /\ Printable(ch) => Len(search_term) < MaxTerm
    /\ ch = "q" => search_term = <<>>

\* one iteration of the loop of live_search_mode for the keystroke read r
CS_live_search_mode_on(r) ==
    /\ variant = "CS" /\ pc \in SearchPcs /\ CanRead
    /\ Reads(r)
    /\ CanType(r[1])
    /\ term' = CS_live_search_mode_mode(term, r[3])
    /\ IF CS_live_search_mode_raises(r[1], r[3])
       THEN IF pc = "startup_search"
            THEN pc' = "raised" /\ UNCHANGED <<result, Menu>>
            ELSE Caught
       ELSE SearchDispatch(r[1])
    /\ CountKey
    /\ UNCHANGED old_settings
    /\ Fixed

CS_live_search_mode == \E r \in SearchReads : CS_live_search_mode_on(r)

\* get_char raises
RCS_get_char_raises(fault) == fault \in {"setraw", "read"}

\* one iteration of the loop of handle_search_input for the keystroke read r
RCS_handle_search_input_on(r) ==
    /\ variant = "RCS" /\ pc \in SearchPcs /\ CanRead
    /\ Reads(r)
    /\ CanType(r[1])
    /\ term' = RCS_get_char_mode(term, r[3])
    /\ IF RCS_get_char_raises(r[3])
       THEN Caught
       ELSE SearchDispatch(r[1])
    /\ CountKey
    /\ UNCHANGED old_settings
    /\ Fixed

RCS_handle_search_input == \E r \in SearchReads : RCS_handle_search_input_on(r)

(* ------------------------------ startup ------------------------------- *)
\* CopilotSelector.run up to its first display: the prompt, get_key and
\* live_search_mode for a long list (both before the try block)
\* r is the keystroke read at the prompt (none is read for a short list)
CS_run_startup_on(r) ==
    /\ variant = "CS" /\ pc = "start"
    /\ IF Large
       THEN /\ Reads(r)
            /\ term' = CS_get_key_mode(term, r[3])
            /\ IF CS_get_key_raises(r[1], r[3])
               THEN pc' = "raised" /\ UNCHANGED Menu
               ELSE pc' = "startup_search" /\ Redisplay
       ELSE pc' = "browsing" /\ Redisplay /\ UNCHANGED term /\ NoRead
    /\ CountKey
    /\ UNCHANGED <<old_settings, result>>
    /\ Fixed

CS_run_startup == \E r \in BrowseReads : CS_run_startup_on(r)

\* what get_char(timeout=3) returns when no key arrives in time
NoChar == "<none>"

\* RobustCopilotSelector.run up to its first display: tcgetattr, and the
\* prompt and the bounded wait for a long list
\* the reads of the bounded wait: a keystroke, or the timeout
StartupReads == BrowseReads \cup {<<NoChar, "", "none">>}

\* a prompt at which every key starts the search
RCS_startup_target_any_key(char) ==
    IF char = NoChar THEN "browsing" ELSE "startup_search"

\* if char == '/': self.handle_search_input(); then the main loop
RCS_startup_target(char) ==
    IF char = "/" THEN "startup_search" ELSE "browsing"

\* saved is what tcgetattr returns ("unset": it raises), r the read of the
\* bounded wait (none happens for a short list)
RCS_run_startup_on(saved, r) ==
    /\ variant = "RCS" /\ pc = "start"
    /\ old_settings' = saved
    /\ IF saved = "unset"
       THEN \* termios.tcgetattr raises
            /\ pc' = "fallback" /\ UNCHANGED <<term, Menu>>
            /\ keysRead' = keysRead /\ NoRead
       ELSE IF Large
       THEN /\ Reads(r)
            /\ term' = RCS_get_char_mode(term, r[3])
            /\ IF RCS_get_char_raises(r[3])
               THEN pc' = "fallback" /\ UNCHANGED Menu
               ELSE /\ pc' = RCS_startup_target(r[1])
                    /\ Redisplay
            /\ CountKey
       ELSE /\ pc' = "browsing" /\ Redisplay /\ UNCHANGED term
            /\ keysRead' = keysRead /\ NoRead
    /\ UNCHANGED result
    /\ Fixed

RCS_run_startup ==
    \E saved \in {"unset", term} : \E r \in StartupReads :
        RCS_run_startup_on(saved, r)

(* ------------------------------ fallback ------------------------------ *)
\* input() at end of input raises EOFError
EndOfInput == <<"<EOF>">>

\* fallback_selection, called from run's except clause, and run's finally
RCS_fallback_selection_on(line) ==
    /\ variant = "RCS" /\ pc = "fallback"
    /\ IF line = EndOfInput
       THEN pc' = "raised" /\ result' = result
       ELSE pc' = "fellback" /\ result' = fallback_selection(copilots, line)
    /\ term' = RCS_run_finally(term, old_settings)
    /\ UNCHANGED <<old_settings, keysRead, Menu, eof>>
    /\ Fixed

RCS_fallback_selection ==
    \E line \in FallbackLines \cup {EndOfInput} : RCS_fallback_selection_on(line)

Next ==
    \/ CS_run_startup
    \/ CS_run_loop
    \/ CS_live_search_mode
    \/ RCS_run_startup
    \/ RCS_run_loop
    \/ RCS_handle_search_input
    \/ RCS_fallback_selection

Spec == Init /\ [][Next]_vars

\* the same sessions, which go on as long as a step changes the state: the
\* interpreter keeps running the loops
SpecLive == Init /\ [][Next]_vars /\ WF_vars(Next)

\* the same sessions in the terminal that is too short for the list
InitTiny ==
    /\ variant \in {"CS", "RCS"}
    /\ copilots \in ItemLists
    /\ tsize = TinySize
    /\ entry_mode \in EntryModes
    /\ term = entry_mode
    /\ old_settings = "unset"
    /\ selected = {}
    /\ current_index = 0
    /\ search_term = <<>>
    /\ filtered_indices = RangeList(Len(copilots))
    /\ view_offset = 0
    /\ pc = "start"
    /\ result = <<>>
    /\ keysRead = 0
    /\ searchable_texts = BuildSearchableTexts(copilots)
    /\ name_groups = BuildNameGroups(copilots)
    /\ main = NoMain
    /\ eof = FALSE
    /\ server = NoServer
    /\ tool = NoTool

SpecTiny == InitTiny /\ [][Next]_vars

(* ------------------------------- main() -------------------------------- *)
\* the scripts whose main() is modelled
Scripts == {"select_copilots", "select_copilots_interactive",
            "select_copilots_simple"}

\* what json.load returns: a JSON array of items, or a JSON object, given by
\* the names of its members; value = <<>> is what `not copilot_data' tests
ListPayloads == {[kind |-> "list", value |-> l] : l \in {<<>>, MixedList}}
ObjectPayloads == {[kind |-> "object", value |-> v] : v \in {<<>>, <<"name">>}}
Payloads == ListPayloads \cup ObjectPayloads

\* os.name, os.path.exists('/dev/tty'), sys.stdin.isatty()
Environments ==
    {e \in [os_name : {"posix", "nt"}, dev_tty : BOOLEAN, isatty : BOOLEAN] :
        e.os_name = "nt" => ~e.dev_tty}

\* main() at its first statement; stdout is the sequence of JSON values
\* main has printed there, stderr whether anything went to the error stream
MainStart(script, payload, e) ==
    [script |-> script, payload |-> payload, os_name |-> e.os_name,
     dev_tty |-> e.dev_tty, isatty |-> e.isatty, at |-> "entry",
     selector |-> "none", stdout |-> <<>>, stderr |-> FALSE,
     status |-> "running"]

\* the module-level `import tty' / `import termios' raise where the platform
\* has no termios module; select_copilots_simple imports neither
ImportRaises(script, os_name) ==
    os_name = "nt" /\ script # "select_copilots_simple"

\* a diagnostic (or a traceback) on stderr and exit status 1
Reject(m) == [m EXCEPT !.at = "done", !.stderr = TRUE, !.status = "exit1"]

\* print(json.dumps(value)) and a normal return
PrintJson(m, value, diagnostic) ==
    [m EXCEPT !.at = "done", !.stdout = Append(@, value),
              !.stderr = (@ \/ diagnostic), !.status = "exit0"]

\* main of select_copilots.py up to the construction of the selector
CS_main_decision(m) ==
    IF ImportRaises(m.script, m.os_name) THEN "crash"
    ELSE IF m.payload.kind # "list" THEN "reject"
    ELSE IF m.payload.value = <<>> THEN "reject"
    ELSE IF m.os_name = "nt" THEN "all"
    ELSE IF ~m.dev_tty THEN "all"
    ELSE "run"

\* main of select_copilots_interactive.py up to the selector's run; the
\* constructor raises AttributeError on the member names of an object
RCS_main_decision(m) ==
    IF ImportRaises(m.script, m.os_name) THEN "crash"
    ELSE IF m.payload.value = <<>> THEN "reject"
    ELSE IF ~m.isatty THEN "all"
    ELSE IF m.payload.kind # "list" THEN "construct_raises"
    ELSE "run"

\* main of select_copilots_simple.py up to get_selection
simple_main_decision(m) ==
    IF m.payload.kind # "list" THEN "reject"
    ELSE IF m.payload.value = <<>> THEN "reject"
    ELSE "prompt"

\* a main that prints whatever run returned
main_result_prints_empty(m, how, items) ==
    IF how = "raised" THEN Reject(m)
    ELSE PrintJson(m, [kind |-> "list", value |-> items], FALSE)

\* the end of main, after selector.run(): how it ended and what it returned
main_result(m, how, items) ==
    IF how = "raised" THEN Reject(m)
    ELSE IF items = <<>> THEN Reject(m)
    ELSE PrintJson(m, [kind |-> "list", value |-> items], FALSE)

\* get_selection: the numbers of the pieces that parse and are in 1..max_num
RECURSIVE KeepInRange(_, _)
KeepInRange(max_num, pieces) ==
    IF pieces = <<>> THEN <<>>
    ELSE LET n == ParseInt(Head(pieces))
         IN  (IF n.ok /\ 1 <= n.val /\ n.val <= max_num THEN <<n.val>> ELSE <<>>)
             \o KeepInRange(max_num, Tail(pieces))

\* get_selection: the 1-based numbers selected by the line read
get_selection(max_num, line) ==
    LET user_input == Strip(line)
    IN  IF Lower(user_input) = <<"a", "l", "l">> THEN [i \in 1..max_num |-> i]
        ELSE KeepInRange(max_num, SplitComma(user_input))

\* the selector's fields right after __init__
Construct(v, cs) ==
    /\ variant' = v
    /\ copilots' = cs
    /\ searchable_texts' = BuildSearchableTexts(cs)
    /\ name_groups' = BuildNameGroups(cs)
    /\ selected' = {}
    /\ current_index' = 0
    /\ search_term' = <<>>
    /\ filtered_indices' = RangeList(Len(cs))
    /\ view_offset' = 0
    /\ pc' = "start"
    /\ UNCHANGED <<tsize, entry_mode, term, old_settings, result, keysRead, eof,
                   server, tool>>

\* no selector is touched
NoSelector ==
    UNCHANGED <<variant, copilots, tsize, entry_mode, term, old_settings,
                selected, current_index, search_term, filtered_indices,
                view_offset, pc, result, keysRead, searchable_texts,
                name_groups, eof, server, tool>>

select_copilots_main ==
    /\ main.at = "entry" /\ main.script = "select_copilots"
    /\ LET d == CS_main_decision(main)
       IN  CASE d = "run" ->
                   /\ main' = [main EXCEPT !.at = "selector", !.selector = "built"]
                   /\ Construct("CS", main.payload.value)
             [] d = "all" -> main' = PrintJson(main, main.payload, TRUE) /\ NoSelector
             [] OTHER -> main' = Reject(main) /\ NoSelector

select_copilots_interactive_main ==
    /\ main.at = "entry" /\ main.script = "select_copilots_interactive"
    /\ LET d == RCS_main_decision(main)
       IN  CASE d = "run" ->
                   /\ main' = [main EXCEPT !.at = "selector", !.selector = "built"]
                   /\ Construct("RCS", main.payload.value)
             [] d = "all" -> main' = PrintJson(main, main.payload, FALSE) /\ NoSelector
             [] d = "construct_raises" ->
                   /\ main' = [Reject(main) EXCEPT !.selector = "raised"]
                   /\ NoSelector
             [] OTHER -> main' = Reject(main) /\ NoSelector

\* main of select_copilots_simple.py up to the prompt of get_selection
select_copilots_simple_main ==
    /\ main.at = "entry" /\ main.script = "select_copilots_simple"
    /\ main' = IF simple_main_decision(main) = "prompt"
               THEN [main EXCEPT !.at = "prompt", !.stderr = TRUE]
               ELSE Reject(main)
    /\ NoSelector

\* the rest of that main for the line read at the prompt
simple_get_selection_on(line) ==
    /\ main.at = "prompt"
    /\ LET copilot_data == main.payload.value
           selected_indices == get_selection(Len(copilot_data), line)
       IN  main' = IF selected_indices = <<>> THEN Reject(main)
                   ELSE PrintJson(main,
                          [kind |-> "list",
                           value |-> [k \in DOMAIN selected_indices |->
                                         copilot_data[selected_indices[k]]]],
                          TRUE)
    /\ NoSelector

simple_get_selection == \E line \in FallbackLines : simple_get_selection_on(line)

\* the rest of the other two mains once run() is over
main_output ==
    /\ main.at = "selector" /\ pc \in ExitPcs
    /\ main' = main_result(main, pc, result)
    /\ NoSelector

InitMain ==
    /\ main \in {MainStart(sc, pl, e) :
                   sc \in Scripts, pl \in Payloads, e \in Environments}
    /\ variant = "none"
    /\ copilots = <<>>
    /\ searchable_texts = <<>>
    /\ name_groups = <<>>
    /\ tsize \in TermSizes
    /\ entry_mode \in EntryModes
    /\ term = entry_mode
    /\ old_settings = "unset"
    /\ selected = {}
    /\ current_index = 0
    /\ search_term = <<>>
    /\ filtered_indices = <<>>
    /\ view_offset = 0
    /\ pc = "unbuilt"
    /\ result = <<>>
    /\ keysRead = 0
    /\ eof = FALSE
    /\ server = NoServer
    /\ tool = NoTool

NextMain ==
    \/ select_copilots_main
    \/ select_copilots_interactive_main
    \/ select_copilots_simple_main
    \/ simple_get_selection
    \/ main_output
    \/ Next

\* one run of one script, from main()'s first statement to the process exit
SpecMain == InitMain /\ [][NextMain]_vars

(* ------------------------------ server.py ----------------------------- *)
\* most skills of a copilot
MaxSkills == 2

\* what ar_client.config.get_copilot_skill does for a skill (returns the
\* skill, returns None, raises) and what the body of register_skill_tool
\* does for its info (runs through, raises before mcp.add_tool, raises in
\* the logging after it)
FetchFates == {"info", "none", "raises"}
RegisterFates == {"ok", "raises_before_add", "raises_after_add"}
SkillLists ==
    UNION {[1..n -> [fetch : FetchFates, register : RegisterFates]] :
             n \in 0..MaxSkills}

\* no selector exists in the process
Unbuilt ==
    /\ variant = "none"
    /\ copilots = <<>>
    /\ searchable_texts = <<>>
    /\ name_groups = <<>>
    /\ tsize \in TermSizes
    /\ entry_mode \in EntryModes
    /\ term = entry_mode
    /\ old_settings = "unset"
    /\ selected = {}
    /\ current_index = 0
    /\ search_term = <<>>
    /\ filtered_indices = <<>>
    /\ view_offset = 0
    /\ pc = "unbuilt"
    /\ result = <<>>
    /\ keysRead = 0
    /\ eof = FALSE
    /\ main = NoMain

\* fetch_skill_info: the skill info, None when the call raises
fetch_skill_info(fate) == IF fate = "info" THEN "info" ELSE "None"

\* a registration that does not test its argument
register_skill_tool_unguarded(skill_info, fate) ==
    CASE fate = "ok" -> [result |-> "True", added |-> TRUE]
      [] fate = "raises_before_add" -> [result |-> "False", added |-> FALSE]
      [] OTHER -> [result |-> "False", added |-> TRUE]

\* register_skill_tool: the value returned, and whether mcp.add_tool ran
register_skill_tool(skill_info, fate) ==
    IF skill_info # "info" THEN [result |-> "False", added |-> FALSE]
    ELSE CASE fate = "ok" -> [result |-> "True", added |-> TRUE]
           [] fate = "raises_before_add" -> [result |-> "False", added |-> FALSE]
           [] OTHER -> [result |-> "False", added |-> TRUE]

OnlyServer ==
    UNCHANGED <<variant, copilots, tsize, entry_mode, term, old_settings,
                selected, current_index, search_term, filtered_indices,
                view_offset, pc, result, keysRead, searchable_texts,
                name_groups, main, eof, tool>>

\* initialize_skill_tools_async up to the first gather: one task per skill
initialize_skill_tools_async ==
    /\ server.phase = "start"
    /\ server' = IF server.copilot_info = "None" \/ server.skills = <<>>
                 THEN [server EXCEPT !.phase = "done"]
                 ELSE [server EXCEPT !.phase = "fetching"]
    /\ OnlyServer

\* the task of fetch_skill_info for the i-th skill runs
fetch_skill_info_task(i) ==
    /\ server.phase = "fetching"
    /\ server.skill_infos[i] = "pending"
    /\ server' = [server EXCEPT
                    !.skill_infos[i] = fetch_skill_info(server.skills[i].fetch)]
    /\ OnlyServer

\* the first gather returns and the second creates one task per skill info
gather_skill_infos ==
    /\ server.phase = "fetching"
    /\ \A i \in DOMAIN server.skills : server.skill_infos[i] # "pending"
    /\ server' = [server EXCEPT !.phase = "registering"]
    /\ OnlyServer

\* the task of register_skill_tool for the i-th skill info runs
register_skill_tool_task(i) ==
    /\ server.phase = "registering"
    /\ server.results[i] = "pending"
    /\ LET r == register_skill_tool(server.skill_infos[i], server.skills[i].register)
       IN  server' = [server EXCEPT
                        !.results[i] = r.result,
                        !.tools = IF r.added THEN @ \cup {i} ELSE @]
    /\ OnlyServer

\* the second gather returns; success_count is computed and printed
gather_results ==
    /\ server.phase = "registering"
    /\ \A i \in DOMAIN server.skills : server.results[i] # "pending"
    /\ server' = [server EXCEPT
                    !.phase = "done",
                    !.success_count =
                        Cardinality({i \in DOMAIN server.results :
                                        server.results[i] = "True"})]
    /\ OnlyServer

InitServer ==
    /\ Unbuilt
    /\ tool = NoTool
    /\ server \in {[phase |-> "start",
                    copilot_info |-> info,
                    skills |-> skills,
                    skill_infos |-> [i \in DOMAIN skills |-> "pending"],
                    results |-> [i \in DOMAIN skills |-> "pending"],
                    tools |-> {},
                    success_count |-> 0 - 1] :
                      info \in {"known", "None"}, skills \in SkillLists}

NextServer ==
    \/ initialize_skill_tools_async
    \/ \E i \in 1..MaxSkills : i \in DOMAIN server.skills /\ fetch_skill_info_task(i)
    \/ gather_skill_infos
    \/ \E i \in 1..MaxSkills : i \in DOMAIN server.skills /\ register_skill_tool_task(i)
    \/ gather_results

\* the initialization of the skill tools when server.py is loaded
SpecServer == InitServer /\ [][NextServer]_vars

(* ------------------- answerrocket_mcp: a skill tool ------------------- *)
\* most parameters of a skill
MaxParams == 2

\* a value passed to the tool: a scalar (items holds it) or a list
Scalar(x) == [list |-> FALSE, items |-> <<x>>]
ListOf(xs) == [list |-> TRUE, items |-> xs]
ArgValues ==
    {Scalar("east"), Scalar("north"), ListOf(<<"east">>), ListOf(<<"east", "north">>)}

\* SkillParameter records; constrained_values <<>> is None or an empty list
ParamPool ==
    {[name |-> "region", required |-> TRUE, is_multi |-> FALSE,
      constrained_values |-> <<"east", "west">>],
     [name |-> "tags", required |-> FALSE, is_multi |-> TRUE,
      constrained_values |-> <<"east">>],
     [name |-> "note", required |-> FALSE, is_multi |-> FALSE,
      constrained_values |-> <<>>],
     [name |-> "ids", required |-> TRUE, is_multi |-> TRUE,
      constrained_values |-> <<>>]}

\* skill_config.parameters: parameters with distinct names
ParamLists ==
    UNION {{ps \in [1..n -> ParamPool] :
              \A i, j \in 1..n : ps[i].name = ps[j].name => i = j} :
             n \in 0..MaxParams}

\* the keyword arguments of a call: declared names and one undeclared name
KwargsOf(params) ==
    LET names == {params[i].name : i \in DOMAIN params} \cup {"extra"}
    IN  UNION {[present -> ArgValues] : present \in SUBSET names}

\* what self.client.skill.run does
VendorFates ==
    {"raises", "returns_none", "unsuccessful_error", "unsuccessful_no_error",
     "success_data", "success_no_data", "success_dump_raises"}

\* if param.is_multi and not isinstance(value, list): value = [value]
Wrap(param, value) ==
    IF param.is_multi /\ ~value.list THEN ListOf(value.items) ELSE value

\* the test that raises "Invalid value(s)" for a constrained parameter
InvalidValue(param, value) ==
    /\ param.constrained_values # <<>>
    /\ IF param.is_multi
       THEN \E k \in DOMAIN value.items :
               value.items[k] \notin Range(param.constrained_values)
       ELSE value.list \/ value.items[1] \notin Range(param.constrained_values)

\* a validation that accepts a call without a required parameter
RECURSIVE validate_skill_arguments_lenient(_, _, _, _)
validate_skill_arguments_lenient(args, params, i, validated_args) ==
    IF i > Len(params)
    THEN [raised |-> "no", validated_args |-> validated_args]
    ELSE LET param == params[i]
         IN  IF param.name \in DOMAIN args
             THEN IF InvalidValue(param, args[param.name])
                  THEN [raised |-> "invalid", validated_args |-> <<>>]
                  ELSE validate_skill_arguments_lenient(args, params, i + 1,
                          (param.name :> Wrap(param, args[param.name]))
                             @@ validated_args)
             ELSE validate_skill_arguments_lenient(args, params, i + 1, validated_args)

\* validate_skill_arguments from the i-th parameter on
RECURSIVE validate_skill_arguments(_, _, _, _)
validate_skill_arguments(args, params, i, validated_args) ==
    IF i > Len(params)
    THEN [raised |-> "no", validated_args |-> validated_args]
    ELSE LET param == params[i]
         IN  IF param.name \in DOMAIN args
             THEN IF InvalidValue(param, args[param.name])
                  THEN [raised |-> "invalid", validated_args |-> <<>>]
                  ELSE validate_skill_arguments(args, params, i + 1,
                          (param.name :> Wrap(param, args[param.name]))
                             @@ validated_args)
             ELSE IF param.required
                  THEN [raised |-> "missing", validated_args |-> <<>>]
                  ELSE validate_skill_arguments(args, params, i + 1, validated_args)

\* the dict returned for an outcome of self.client.skill.run
skill_tool_response(fate) ==
    CASE fate = "success_data" -> [success |-> TRUE, body |-> "data"]
      [] fate = "success_no_data" -> [success |-> TRUE, body |-> "None"]
      [] fate = "unsuccessful_error" -> [success |-> FALSE, body |-> "result.error"]
      [] fate = "unsuccessful_no_error" ->
            [success |-> FALSE, body |-> "Unknown error occurred"]
      [] OTHER -> [success |-> FALSE, body |-> "str(e)"]

OnlyTool ==
    UNCHANGED <<variant, copilots, tsize, entry_mode, term, old_settings,
                selected, current_index, search_term, filtered_indices,
                view_offset, pc, result, keysRead, searchable_texts,
                name_groups, main, eof, server>>

\* skill_tool up to the await: validation, then the vendor call is submitted
skill_tool_validate ==
    /\ tool.phase = "called"
    /\ LET v == validate_skill_arguments(tool.kwargs, tool.params, 1, <<>>)
       IN  tool' = IF v.raised # "no"
                   THEN [tool EXCEPT !.phase = "returned",
                                     !.response = [success |-> FALSE, body |-> "str(e)"]]
                   ELSE [tool EXCEPT !.phase = "running",
                                     !.vendor_called = TRUE,
                                     !.inputs = v.validated_args]
    /\ OnlyTool

\* self.client.skill.run is over and skill_tool returns
skill_tool_return(fate) ==
    /\ tool.phase = "running"
    /\ tool' = [tool EXCEPT !.phase = "returned",
                            !.vendor = fate,
                            !.response = skill_tool_response(fate)]
    /\ OnlyTool

InitTool ==
    /\ Unbuilt
    /\ server = NoServer
    /\ \E params \in ParamLists :
          \E kwargs \in KwargsOf(params) :
             tool = [phase |-> "called",
                     params |-> params,
                     kwargs |-> kwargs,
                     vendor_called |-> FALSE,
                     inputs |-> <<>>,
                     vendor |-> "not run",
                     response |-> [success |-> FALSE, body |-> "pending"]]

NextTool ==
    \/ skill_tool_validate
    \/ \E fate \in VendorFates : skill_tool_return(fate)

\* one call of a skill tool
SpecTool == InitTool /\ [][NextTool]_vars

TypeOK ==
    /\ pc \in {"start", "startup_search", "search", "browsing", "fallback"} \cup ExitPcs
    /\ selected \subseteq 0..(Len(copilots) - 1)
    /\ term \in EntryModes \cup {"raw"}
    /\ eof \in BOOLEAN


(* ======================================================================= *)
(* Properties                                                              *)
(* ======================================================================= *)
\* the steps of the two selectors, by the keystroke read
BrowseOn(r) == CS_run_loop_on(r) \/ RCS_run_loop_on(r)
SearchOn(r) == CS_live_search_mode_on(r) \/ RCS_handle_search_input_on(r)
KeyOf(r) == IF variant = "CS" THEN CS_get_key(r[1], r[2]) ELSE RCS_key(r[1], r[2])

\* this step dispatches key k in Browsing / character ch in SearchEntry
Pressed(k) == \E r \in BrowseReads : r[3] = "none" /\ KeyOf(r) = k /\ BrowseOn(r)
Typed(ch) == \E r \in SearchReads : r[3] = "none" /\ r[1] = ch /\ SearchOn(r)

\* this step runs filter_copilots
JustFiltered ==
    \/ Pressed("ESC")
    \/ Typed("<ESC>")
    \/ search_term # <<>> /\ (Typed("<DEL>") \/ Typed("<BS>"))
    \/ \E ch \in SearchChars : Printable(ch) /\ Typed(ch)

\* this step is an exception raised inside the interactive loop
RaisedInLoop ==
    /\ pc \in {"browsing", "search"}
    /\ \/ \E r \in BrowseReads : CS_get_key_raises(r[1], r[3]) /\ CS_run_loop_on(r)
       \/ \E r \in BrowseReads :
             RCS_loop_read_raises(r[1], r[3]) /\ RCS_run_loop_on(r)
       \/ \E r \in SearchReads :
             CS_live_search_mode_raises(r[1], r[3]) /\ CS_live_search_mode_on(r)
       \/ \E r \in SearchReads :
             RCS_get_char_raises(r[3]) /\ RCS_handle_search_input_on(r)

CursorInRange(ci, fi) == 0 <= ci /\ ci < Len(fi)

\* C1: in CopilotSelector, whenever filter_copilots has just run and
\* filtered_indices is non-empty, 0 <= current_index < len(filtered_indices).
C1_CursorInRangeAfterFilter ==
    [][(variant = "CS" /\ JustFiltered /\ filtered_indices' # <<>>)
          => CursorInRange(current_index', filtered_indices')]_vars

\* C2: in CopilotSelector, while filtered_indices is empty, Up, Down, k, j,
\* PageUp, PageDown and Space leave current_index (at 0), view_offset and
\* selected unchanged.
NavSelectKeys == {"UP", "DOWN", "k", "j", "PGUP", "PGDN", " "}
C2_NoOpWhileNoMatches ==
    [][(variant = "CS" /\ filtered_indices = <<>>
          /\ \E k \in NavSelectKeys : Pressed(k))
          => (current_index' = 0
              /\ UNCHANGED <<current_index, view_offset, selected>>)]_vars

\* the whitespace-separated tokens of s, as a set: the maximal runs of
\* non-space characters
TokensOf(s) ==
    { SubSeq(s, p[1], p[2]) :
        p \in { q \in (1..Len(s)) \X (1..Len(s)) :
                  /\ q[1] <= q[2]
                  /\ \A k \in q[1]..q[2] : s[k] # " "
                  /\ (q[1] = 1 \/ s[q[1] - 1] = " ")
                  /\ (q[2] = Len(s) \/ s[q[2] + 1] = " ") } }

\* t occurs in text as a block of consecutive characters
IsSubstring(t, text) ==
    \E i \in 1..(Len(text) - Len(t) + 1) : SubSeq(text, i, i + Len(t) - 1) = t

\* C3: for a non-empty search term, position p is in filtered_indices iff
\* the item's lowercase searchable text contains every whitespace-separated
\* token of the lowercased term as a substring.
C3_FilterIsAndOfTokens ==
    search_term # <<>> =>
        \A p \in 0..(Len(copilots) - 1) :
            (p \in Range(filtered_indices))
              <=> (\A t \in TokensOf(Lower(search_term)) :
                      IsSubstring(t, SearchableText(copilots[p + 1])))

\* a two-token term that keeps some items and drops others
C3_Witness ==
    /\ search_term = <<"a", " ", "B">>
    /\ filtered_indices # <<>>
    /\ Len(filtered_indices) < Len(copilots)

\* the position that has exactly k - 1 selected positions below it
NthSelected(k) ==
    CHOOSE x \in selected : Cardinality({y \in selected : y < x}) = k - 1

\* C4: Enter in Browsing returns exactly the items at the positions in
\* selected, in ascending position order, one item per position.
C4_ConfirmReturnsSelected ==
    pc = "confirmed" =>
        /\ Len(result) = Cardinality(selected)
        /\ \A k \in 1..Len(result) : result[k] = copilots[NthSelected(k) + 1]

\* confirmed with two items selected whose records differ
C4_Witness ==
    /\ pc = "confirmed"
    /\ Cardinality(selected) >= 2
    /\ \E i, j \in selected : copilots[i + 1] # copilots[j + 1]

\* C5: q or Ctrl-C in Browsing makes run return the empty list, whatever is
\* selected.
C5_CancelReturnsEmpty ==
    [][(Pressed("q") \/ Pressed("<ETX>"))
          => (pc' = "cancelled" /\ result' = <<>>)]_vars

\* cancelled with something selected
C5_Witness == pc = "cancelled" /\ selected # {}

\* C6: whenever run has returned or raised, the terminal mode is the one in
\* force when run was called.
C6_TerminalRestoredOnExit == pc \in ExitPcs => term = entry_mode

\* run ended by an exception path after keys were typed in search entry
C6_Witness == pc \in {"failed", "fellback", "raised"} /\ search_term # <<>>

\* C7: an exception raised in the interactive loop hands control to the
\* line-based selection path.
C7_ExceptionFallsBack == [][RaisedInLoop => pc' = "fallback"]_vars

\* C8: fallback_selection never runs while the terminal is in raw mode: the
\* mode is the original one when it prompts and reads.
C8_FallbackNotRaw == pc = "fallback" => term = entry_mode

\* C9: in Browsing, `a' followed by the deselect-all-shown key leaves no
\* position of filtered_indices selected and leaves the selected positions
\* outside filtered_indices as they were.
C9_SelectThenDeselectShown ==
    pc = "browsing" =>
        LET shown == Range(filtered_indices)
            s1 == SelectedAfter(variant, "a", selected, filtered_indices, current_index)
            s2 == SelectedAfter(variant, DeselectKey(variant), s1, filtered_indices,
                                current_index)
        IN  /\ shown \subseteq s1
            /\ s2 \cap shown = {}
            /\ s2 \ shown = selected \ shown

\* Browsing with all shown items selected and a selection outside the filter
C9_Witness ==
    /\ pc = "browsing"
    /\ filtered_indices # <<>>
    /\ Range(filtered_indices) \subseteq selected
    /\ selected \ Range(filtered_indices) # {}

\* C10: in Browsing, a second Space undoes the first: after a Space step, the
\* toggle applied again gives the selection before the step, and the step
\* changes neither cursor, filter nor search term.
C10_SpaceTwiceRestores ==
    [][Pressed(" ")
          => /\ pc' = "browsing"
             /\ UNCHANGED <<current_index, filtered_indices, search_term>>
             /\ SelectedAfter(variant, " ", selected', filtered_indices',
                              current_index') = selected]_vars

\* Browsing under a filter with the item under the cursor selected
C10_Witness ==
    /\ pc = "browsing"
    /\ filtered_indices # <<>>
    /\ CursorInRange(current_index, filtered_indices)
    /\ filtered_indices[current_index + 1] \in selected
    /\ Len(filtered_indices) < Len(copilots)

\* the positions on the rows that display prints with the cursor marker
MarkedPositions ==
    { r.copilot_idx :
        r \in { x \in display_rows(variant, tsize, filtered_indices,
                                   current_index, view_offset) : x.cursor } }

\* C11: Space toggles the membership in selected of the position on the row
\* that carries the cursor marker, filtered_indices[current_index], and of
\* nothing else; when the filter shows the single position p and only p is
\* selected, Enter returns [items[p]].
C11_SpaceTogglesMarkedPosition ==
    [][/\ (Pressed(" ") /\ filtered_indices # <<>>)
            => /\ Cardinality(MarkedPositions) = 1
               /\ selected' = (selected \ MarkedPositions)
                                 \cup (MarkedPositions \ selected)
       /\ ((Pressed("<CR>") \/ Pressed("<LF>"))
              /\ Len(filtered_indices) = 1
              /\ selected = {filtered_indices[1]})
            => result' = <<copilots[filtered_indices[1] + 1]>>]_vars

\* confirmed with the one shown item selected, shown on row 0 and not the
\* item at position 0
C11_Witness ==
    /\ pc = "confirmed"
    /\ search_term # <<>>
    /\ Len(filtered_indices) = 1
    /\ current_index = 0
    /\ filtered_indices[1] # 0
    /\ selected = {filtered_indices[1]}
    /\ result = <<copilots[filtered_indices[1] + 1]>>

\* the positions 0..len(items)-1 in order
FullRange == [i \in 1..Len(copilots) |-> i - 1]

\* C12: with an empty search term filtered_indices is the full index range
\* in order; Escape in Browsing empties the term, re-filters to the full
\* range, stays in Browsing and leaves selected unchanged.
C12_EmptyTermShowsAll ==
    /\ [](search_term = <<>> => filtered_indices = FullRange)
    /\ [][Pressed("ESC")
            => /\ search_term' = <<>>
               /\ filtered_indices' = FullRange
               /\ pc' = "browsing"
               /\ selected' = selected]_vars

\* Browsing under a filter that hides a selected item, where Escape acts
C12_Witness ==
    /\ pc = "browsing"
    /\ search_term # <<>>
    /\ Len(filtered_indices) < Len(copilots)
    /\ selected \ Range(filtered_indices) # {}
    /\ selected \cap Range(filtered_indices) = {}

\* the states in which display has been called and the list is on screen
Displayed == pc \in {"browsing"} \cup SearchPcs

\* C13: after every display with a non-empty filtered_indices, the window
\* [view_offset, view_offset + available_lines) contains current_index and
\* the row with the cursor marker is one of the rows printed.
C13_WindowContainsCursor ==
    (Displayed /\ filtered_indices # <<>>)
        => /\ view_offset <= current_index
           /\ current_index < view_offset + available_lines(variant, tsize)
           /\ MarkedPositions # {}

\* C14: every element of selected is a position into items.
C14_SelectedValid ==
    \A i \in selected : 0 <= i /\ i < Len(copilots)

\* everything selected, part of it under a filter that now hides it
C14_Witness ==
    /\ pc = "browsing"
    /\ Len(copilots) >= 2
    /\ selected = 0..(Len(copilots) - 1)
    /\ search_term # <<>>
    /\ Len(filtered_indices) < Len(copilots)

\* C15: filtered_indices is a strictly ascending sequence of positions into
\* items.
C15_FilteredAscending ==
    \A k \in 1..Len(filtered_indices) :
        /\ 0 <= filtered_indices[k]
        /\ filtered_indices[k] < Len(copilots)
        /\ k < Len(filtered_indices) => filtered_indices[k] < filtered_indices[k + 1]

\* a filter of several rows that skips items between them
C15_Witness ==
    /\ search_term # <<>>
    /\ Len(filtered_indices) >= 2
    /\ \E k \in 1..(Len(filtered_indices) - 1) :
          filtered_indices[k + 1] > filtered_indices[k] + 1

\* C16: filtered_indices is the filter result of the current search_term.
C16_FilterNeverStale ==
    filtered_indices = FilterIndices(copilots, search_term)

\* SearchEntry with a term that matches nothing, typed after a shorter
\* term that did
C16_Witness ==
    /\ pc \in SearchPcs
    /\ Len(search_term) >= 2
    /\ filtered_indices = <<>>
    /\ FilterIndices(copilots, SubSeq(search_term, 1, Len(search_term) - 1)) # <<>>

\* C17: in SearchEntry, Enter goes to Browsing with search_term and
\* filtered_indices unchanged, Escape goes to Browsing with the term empty
\* and the full range shown; neither ends run or changes selected.
C17_SearchEntryExits ==
    [][/\ (Typed("<CR>") \/ Typed("<LF>"))
            => /\ pc' = "browsing"
               /\ UNCHANGED <<search_term, filtered_indices, selected>>
       /\ Typed("<ESC>")
            => /\ pc' = "browsing"
               /\ search_term' = <<>>
               /\ filtered_indices' = FullRange
               /\ selected' = selected]_vars

\* Browsing with a term kept from SearchEntry and a selection made before it
C17_Witness ==
    /\ pc = "browsing"
    /\ search_term = <<"B">>
    /\ filtered_indices # <<>>
    /\ selected # {}

\* C18 as stated: n and d each remove the shown positions from selected.
C18_NAndDDeselectShown ==
    [][(Pressed("n") \/ Pressed("d"))
          => selected' = selected \ Range(filtered_indices)]_vars

\* C18: the deselect key of the selector (n in CopilotSelector, d in
\* RobustCopilotSelector) removes exactly the shown positions from selected;
\* the other of the two keys changes nothing.
C18_OwnKeyDeselectsShown ==
    [][/\ ((variant = "CS" /\ Pressed("n")) \/ (variant = "RCS" /\ Pressed("d")))
            => selected' = selected \ Range(filtered_indices)
       /\ ((variant = "CS" /\ Pressed("d")) \/ (variant = "RCS" /\ Pressed("n")))
            => UNCHANGED <<selected, current_index, search_term, filtered_indices>>]_vars

\* Browsing with nothing shown selected and a selection outside the filter
C18_Witness ==
    /\ pc = "browsing"
    /\ filtered_indices # <<>>
    /\ selected # {}
    /\ selected \cap Range(filtered_indices) = {}

\* C19: in CopilotSelector, t replaces selected by its symmetric difference
\* with the shown positions and leaves the filter alone, so a second t
\* restores selected.
C19_ToggleAllIsSymmetricDifference ==
    [][(variant = "CS" /\ Pressed("t"))
          => LET shown == Range(filtered_indices)
             IN  /\ selected' = (selected \ shown) \cup (shown \ selected)
                 /\ UNCHANGED <<filtered_indices, search_term, current_index>>
                 /\ toggle_all(selected', filtered_indices') = selected]_vars

\* CopilotSelector under a filter with some shown positions selected, some not
C19_Witness ==
    /\ variant = "CS"
    /\ pc = "browsing"
    /\ search_term # <<>>
    /\ selected \cap Range(filtered_indices) # {}
    /\ Range(filtered_indices) \ selected # {}

\* x brought into lo..hi, the floor applied last
Clamp(x, lo, hi) == Max(lo, Min(hi, x))

\* C20: Up/k move the cursor one row up unless that is below 0, Down/j one
\* row down unless that is past the last row, PageUp/PageDown by 10 clamped
\* to [0, len(filtered_indices)-1]; none changes selected, search_term or
\* filtered_indices.
C20_NavigationClamped ==
    [][/\ (Pressed("UP") \/ Pressed("k"))
            => current_index' = IF current_index - 1 >= 0
                                THEN current_index - 1 ELSE current_index
       /\ (Pressed("DOWN") \/ Pressed("j"))
            => current_index' = IF current_index + 1 <= Len(filtered_indices) - 1
                                THEN current_index + 1 ELSE current_index
       /\ Pressed("PGUP")
            => current_index' = Clamp(current_index - PageStep, 0,
                                      Len(filtered_indices) - 1)
       /\ Pressed("PGDN")
            => current_index' = Clamp(current_index + PageStep, 0,
                                      Len(filtered_indices) - 1)
       /\ (\E k \in {"UP", "DOWN", "k", "j", "PGUP", "PGDN"} : Pressed(k))
            => UNCHANGED <<selected, search_term, filtered_indices>>]_vars

\* C21: in RobustCopilotSelector.run over more than 20 items, the bounded
\* wait ends in Browsing with an empty search term when it times out or
\* reads a key other than `/', and in SearchEntry only on `/'; with 20 items
\* or fewer run starts in Browsing.
C21_BoundedStartupWait ==
    [][\A r \in StartupReads :
          (RCS_run_startup_on(term, r) /\ r[3] = "none")
             => /\ search_term' = <<>>
                /\ pc' = IF Large /\ r[1] = "/" THEN "startup_search"
                         ELSE "browsing"]_vars

\* Browsing over the long list right after the wait, nothing typed
C21_Witness ==
    /\ variant = "RCS"
    /\ Large
    /\ pc = "browsing"
    /\ keysRead = 1
    /\ search_term = <<>>

\* C22: in CopilotSelector.run over more than 20 items, ESC at the startup
\* prompt goes to Browsing without entering search mode and any other key
\* enters SearchEntry.
C22_StartupPromptEscBrowses ==
    [][\A r \in BrowseReads :
          (CS_run_startup_on(r) /\ Large /\ ~CS_get_key_raises(r[1], r[3]))
             => pc' = IF CS_get_key(r[1], r[2]) = "ESC" THEN "browsing"
                      ELSE "startup_search"]_vars

\* C23: every main rejects a payload that is not an array, and an empty
\* array: diagnostic on stderr, non-zero exit, nothing on stdout, no selector
\* constructed.
C23_MainRejectsNonArrayAndEmpty ==
    [][(main.at = "entry"
          /\ (main.payload.kind # "list" \/ main.payload.value = <<>>))
          => /\ main'.at = "done"
             /\ main'.status = "exit1"
             /\ main'.stderr
             /\ main'.stdout = <<>>
             /\ main'.selector = "none"
             /\ pc' = "unbuilt"]_vars

\* no interactive terminal for the script: the platform is unsupported, or
\* the device the script reads keys from is missing
NoTerminal(m) ==
    CASE m.script = "select_copilots" -> m.os_name = "nt" \/ ~m.dev_tty
      [] m.script = "select_copilots_interactive" -> m.os_name = "nt" \/ ~m.isatty
      [] OTHER -> FALSE

\* C24: without an interactive terminal, main of select_copilots.py and of
\* select_copilots_interactive.py builds no selector and prints the whole
\* input list, unmodified, with a successful exit.
C24_NoTerminalOutputsAll ==
    [][(main.at = "entry" /\ main.payload \in ListPayloads
          /\ main.payload.value # <<>> /\ NoTerminal(main))
          => /\ main'.at = "done"
             /\ main'.status = "exit0"
             /\ main'.stdout = <<main.payload>>
             /\ main'.selector = "none"
             /\ pc' = "unbuilt"]_vars

\* C25: when main is over, an empty selector result has given no JSON on
\* stdout, a diagnostic on stderr and a non-zero exit; every JSON value on
\* stdout is non-empty, and stdout has one exactly when the exit is 0.
C25_EmptyResultFails ==
    main.at = "done" =>
        /\ (main.selector = "built" /\ pc # "raised" /\ result = <<>>)
              => (main.stdout = <<>> /\ main.stderr /\ main.status = "exit1")
        /\ \A k \in DOMAIN main.stdout : main.stdout[k].value # <<>>
        /\ (main.status = "exit0") <=> (main.stdout # <<>>)

\* main over after a confirm or a cancel that returned nothing
C25_Witness ==
    /\ main.at = "done"
    /\ pc \in {"confirmed", "cancelled"}
    /\ result = <<>>
    /\ main.status = "exit1"

\* C26: items, searchable texts and name groups keep their values of
\* construction in every state, and the records returned on confirm are
\* records of the input list.
C26_ItemsNeverModified ==
    /\ [](/\ searchable_texts = [i \in DOMAIN copilots |-> SearchableText(copilots[i])]
          /\ name_groups = BuildNameGroups(copilots))
    /\ [][/\ copilots' = copilots
          /\ searchable_texts' = searchable_texts
          /\ name_groups' = name_groups
          /\ pc' = "confirmed"
               => \A k \in DOMAIN result' : result'[k] \in Range(copilots)]_vars

\* every item confirmed after a search
C26_Witness ==
    /\ pc = "confirmed"
    /\ search_term # <<>>
    /\ Len(copilots) >= 2
    /\ Len(result) = Len(copilots)

\* C27: the row of the item at position p has the duplicate marker iff
\* another position of the full list has the same name, a missing name
\* counting as the default name; this holds under every filter and
\* selection.
C27_DuplicateMarker ==
    pc # "unbuilt" =>
        \A p \in 0..(Len(copilots) - 1) :
            duplicate_indicator(name_groups, copilots[p + 1])
              <=> \E q \in 0..(Len(copilots) - 1) :
                     /\ q # p
                     /\ (IF copilots[q + 1].name = Missing THEN Unknown
                         ELSE copilots[q + 1].name)
                          = (IF copilots[p + 1].name = Missing THEN Unknown
                             ELSE copilots[p + 1].name)

\* rows on screen with and without the marker, with a selection made
C27_Witness ==
    /\ pc = "browsing"
    /\ selected # {}
    /\ LET rows == display_rows(variant, tsize, filtered_indices, current_index,
                                view_offset)
       IN  \E r1, r2 \in rows :
              /\ duplicate_indicator(name_groups, copilots[r1.copilot_idx + 1])
              /\ ~duplicate_indicator(name_groups, copilots[r2.copilot_idx + 1])

\* the number of lines of the terminal, 24 when the size is not known
TerminalLines(size) == IF size = NoSize THEN DefaultRows ELSE size.lines

\* C28: CopilotSelector.display prints at most R - header - footer item
\* rows, R being the number of lines of the terminal.
C28_BodyFitsTerminal ==
    (variant = "CS" /\ Displayed)
        => Cardinality(display_rows(variant, tsize, filtered_indices,
                                    current_index, view_offset))
             <= TerminalLines(tsize) - HeaderLines - FooterLinesCS

\* lines of comma-separated numbers, with the numbers they spell
NumberLines ==
    { [line |-> <<"1">>, numbers |-> <<1>>],
      [line |-> <<"2", ",", "1">>, numbers |-> <<2, 1>>],
      [line |-> <<" ", "1", " ", ",", "3">>, numbers |-> <<1, 3>>],
      [line |-> <<"0">>, numbers |-> <<0>>],
      [line |-> <<"-", "1">>, numbers |-> <<0 - 1>>],
      [line |-> <<"9">>, numbers |-> <<9>>],
      [line |-> <<"1", ",", "1">>, numbers |-> <<1, 1>>] }

\* the spellings of `all'
AllLines == {<<"a", "l", "l">>, <<"A", "l", "l">>}

\* the items of cs at the valid 1-based positions among numbers, in order
RECURSIVE ItemsAt(_, _)
ItemsAt(cs, numbers) ==
    IF numbers = <<>> THEN <<>>
    ELSE (IF Head(numbers) \in 1..Len(cs) THEN <<cs[Head(numbers)]>> ELSE <<>>)
         \o ItemsAt(cs, Tail(numbers))

\* what main of select_copilots_simple.py does with the items selected
SimplePrinted(items) ==
    IF items = <<>> THEN main'.stdout = <<>> /\ main'.status = "exit1"
    ELSE main'.stdout = <<[kind |-> "list", value |-> items]>>
         /\ main'.status = "exit0"

\* C29: fallback_selection and get_selection select every item in original
\* order for `all' in any letter case, and for comma-separated numbers the
\* items at the valid 1-based positions in the order typed; numbers out of
\* range select nothing and raise nothing.
C29_LineSelection ==
    [][/\ \A c \in NumberLines :
             RCS_fallback_selection_on(c.line)
                => pc' = "fellback" /\ result' = ItemsAt(copilots, c.numbers)
       /\ \A l \in AllLines :
             RCS_fallback_selection_on(l)
                => pc' = "fellback" /\ result' = copilots
       /\ \A c \in NumberLines :
             simple_get_selection_on(c.line)
                => SimplePrinted(ItemsAt(main.payload.value, c.numbers))
       /\ \A l \in AllLines :
             simple_get_selection_on(l) => SimplePrinted(main.payload.value)]_vars

\* select_copilots_simple has printed the second item before the first
C29_Witness ==
    /\ main.at = "done"
    /\ main.script = "select_copilots_simple"
    /\ Len(main.stdout) = 1
    /\ main.stdout[1].value = <<main.payload.value[2], main.payload.value[1]>>

\* C30: a re-filter leaves selected alone, leaves current_index alone when
\* it is below the new length and else sets it to the last row (0 for an
\* empty list), and resets view_offset to 0, from where the display that
\* follows scrolls to the cursor.
C30_RefilterClamps ==
    [][JustFiltered
          => /\ selected' = selected
             /\ current_index' =
                   IF current_index < Len(filtered_indices') THEN current_index
                   ELSE IF filtered_indices' = <<>> THEN 0
                   ELSE Len(filtered_indices') - 1
             /\ view_offset' = DisplayOffset(variant, tsize, current_index', 0)]_vars

\* SearchEntry over a shortened list with the cursor on its last row, below
\* the first, and a selection made
C30_Witness ==
    /\ pc \in SearchPcs
    /\ search_term # <<>>
    /\ Len(filtered_indices) >= 2
    /\ Len(filtered_indices) < Len(copilots)
    /\ current_index = Len(filtered_indices) - 1

\* the view_offset display starts from in this step: filter_copilots has
\* just reset it, or it is the one of the display before
OffsetBeforeDisplay == IF JustFiltered THEN 0 ELSE view_offset

\* display moves the window by the least amount that shows the cursor
DisplayMovesMinimally ==
    [][Displayed'
          => LET vo == OffsetBeforeDisplay
                 n == available_lines(variant, tsize)
             IN  view_offset' =
                    IF vo <= current_index' /\ current_index' < vo + n THEN vo
                    ELSE IF current_index' < vo THEN current_index'
                    ELSE current_index' - n + 1]_vars

\* C31: display changes view_offset only when the cursor is outside the
\* window, then to current_index (cursor above) or to current_index -
\* available_lines + 1 (cursor below); view_offset is never negative.
C31_DisplayScrollsMinimally ==
    /\ DisplayMovesMinimally
    /\ [](Displayed => view_offset >= 0)

\* the rows CopilotSelector.display has on screen, each with the text
\* get_display_info gave and the text printed
ShownRows ==
    { [info |-> get_display_info(name_groups, copilots[row.copilot_idx + 1],
                                 search_term, pc \in SearchPcs),
       cols |-> get_terminal_size(variant, tsize).cols] :
        row \in display_rows(variant, tsize, filtered_indices, current_index,
                             view_offset) }

\* C32: in CopilotSelector.display a row is truncated exactly when its
\* visible character count, styling codes excluded, exceeds cols - 8; a
\* truncated row shows the first max_len - 3 visible characters followed by
\* `...' and no part of a styling code.
C32_TruncationCountsVisible ==
    (variant = "CS" /\ Displayed) =>
        \A row \in ShownRows :
            LET clean == StripAnsi(row.info, 1)
                shown == StripAnsi(display_info(row.info, row.cols), 1)
            IN  /\ Truncates(row.info, row.cols) <=> Len(clean) > MaxLen(row.cols)
                /\ Truncates(row.info, row.cols)
                     => /\ shown = PyTake(clean, MaxLen(row.cols) - 3) \o Ellipsis
                        /\ Esc \notin Range(shown)

\* C33: a character typed or deleted in SearchEntry and a search cleared in
\* either state leave selected as it was, and Enter in Browsing returns one
\* item per selected position, those the filter hides included.
C33_SelectionsSurviveFiltering ==
    [][/\ (Pressed("ESC") \/ \E ch \in SearchChars : Typed(ch))
             => selected' = selected
       /\ (Pressed("<CR>") \/ Pressed("<LF>"))
             => /\ pc' = "confirmed"
                /\ Len(result') = Cardinality(selected)
                /\ \A i \in selected : copilots[i + 1] \in Range(result')]_vars

\* confirmed under a search that hides a selected item
C33_Witness ==
    /\ pc = "confirmed"
    /\ search_term # <<>>
    /\ \E i \in selected : i \notin Range(filtered_indices)
    /\ Len(result) = Cardinality(selected)

\* the read of a bare Escape that has Space and Enter typed behind it
EscSpaceEnter == <<"<ESC>", " <CR>", "none">>

\* C34: in Browsing each keystroke is one command, in the order typed: the
\* step that reads Escape with Space and Enter behind it clears the search,
\* toggles the row under the cursor and confirms.
C34_EscapeKeepsFollowingKeys ==
    [][BrowseOn(EscSpaceEnter)
          => LET fi == FilterIndices(copilots, <<>>)
                 ci == ClampIndex(current_index, fi)
             IN  /\ pc' = "confirmed"
                 /\ selected' = toggle_selection(selected, fi, ci)
                 /\ result' = confirm_result(copilots, selected')]_vars

\* C35: run returns a confirmed or cancelled result only from Browsing; in
\* SearchEntry no keystroke ends the session or changes selected, `q' is
\* appended to the search term and Ctrl-C changes nothing.
C35_SearchEntryNeverReturns ==
    [][/\ pc' \in {"confirmed", "cancelled"} => pc = "browsing"
       /\ (\E ch \in SearchChars \ {""} : Typed(ch))
             => /\ pc' \in SearchPcs \cup {"browsing"}
                /\ selected' = selected
                /\ result' = result
       /\ Typed("q")
             => /\ pc' = pc
                /\ search_term' = Append(search_term, "q")
       /\ Typed("<ETX>")
             => UNCHANGED <<pc, selected, search_term, filtered_indices,
                            current_index>>]_vars

\* SearchEntry with a term that begins with `q' and a selection made
C35_Witness ==
    /\ pc \in SearchPcs
    /\ Len(search_term) >= 2
    /\ search_term[1] = "q"
    /\ selected # {}

\* C36: under a non-empty search term made of whitespace only,
\* filtered_indices is the full index range, as for the empty term.
C36_BlankTermShowsAll ==
    (search_term # <<>> /\ \A i \in DOMAIN search_term : IsSpace(search_term[i]))
        => filtered_indices = FullRange

\* SearchEntry over two items or more after a single space was typed
C36_Witness ==
    /\ pc \in SearchPcs
    /\ search_term = <<" ">>
    /\ Len(copilots) >= 2
    /\ Len(filtered_indices) = Len(copilots)

\* C37: once the keystroke source is at end of input, run eventually returns
\* (or raises), from Browsing as from SearchEntry, in both selectors.
C37_EndOfInputReturns == eof ~> (pc \in ExitPcs)

\* a number typed twice, and a number followed by a token that is no number
RepeatedLine == <<"1", ",", "1">>
MalformedLine == <<"1", ",", "x">>

\* C38: both line-based paths return each item at most once and skip a
\* token that is no number: `1,1' and `1,x' both select the first item
\* alone.
C38_LineSelectionUniform ==
    [][/\ \A line \in {RepeatedLine, MalformedLine} :
             RCS_fallback_selection_on(line)
                => pc' = "fellback" /\ result' = <<copilots[1]>>
       /\ \A line \in {RepeatedLine, MalformedLine} :
             simple_get_selection_on(line)
                => SimplePrinted(<<main.payload.value[1]>>)]_vars

\* C39: in initialize_skill_tools_async no registration runs before every
\* fetch is over; mcp.add_tool runs only for skills whose fetch gave an
\* info; when it is over, exactly the skills whose fetch and registration
\* both went through have returned True, whatever the others did, and the
\* count reported is the number of True results.
C39_SkillToolsInitialized ==
    server.phase \in {"fetching", "registering", "done"} =>
        LET ids == DOMAIN server.skills
        IN  /\ \A i \in ids :
                  server.results[i] # "pending"
                     => \A j \in ids : server.skill_infos[j] # "pending"
            /\ \A i \in server.tools : server.skills[i].fetch = "info"
            /\ (server.phase = "done" /\ server.copilot_info = "known" /\ ids # {})
                  => /\ \A i \in ids :
                           server.results[i] = "True"
                              <=> /\ server.skills[i].fetch = "info"
                                  /\ server.skills[i].register = "ok"
                     /\ \A i \in ids :
                           (server.results[i] = "True") => i \in server.tools
                     /\ server.success_count =
                           Cardinality({i \in ids : server.results[i] = "True"})

\* the initialization is over with one skill registered and one whose fetch
\* failed
C39_Witness ==
    /\ server.phase = "done"
    /\ server.success_count = 1
    /\ \E i, j \in DOMAIN server.skills :
          /\ server.skills[i].fetch # "info"
          /\ server.results[j] = "True"

\* a required parameter of the skill is absent from the call
MissingRequired ==
    \E i \in DOMAIN tool.params :
       tool.params[i].required /\ tool.params[i].name \notin DOMAIN tool.kwargs

\* the call gives a constrained parameter a value that is not allowed
OutsideConstrained ==
    \E i \in DOMAIN tool.params :
       LET param == tool.params[i]
       IN  /\ param.name \in DOMAIN tool.kwargs
           /\ param.constrained_values # <<>>
           /\ \E k \in DOMAIN tool.kwargs[param.name].items :
                 tool.kwargs[param.name].items[k] \notin Range(param.constrained_values)

\* C40: a call of a skill tool always ends with a returned dict; the vendor
\* skill runs only after validation passed, so a missing required parameter
\* or a value outside the constrained values gives success False without a
\* vendor run; a vendor exception or unsuccessful result gives success
\* False; the inputs forwarded are the declared parameters present in the
\* call.
C40_SkillToolNeverRaises ==
    tool.phase # "none" =>
        /\ tool.vendor_called => ~MissingRequired /\ ~OutsideConstrained
        /\ tool.vendor_called =>
              DOMAIN tool.inputs =
                 DOMAIN tool.kwargs \cap {tool.params[i].name : i \in DOMAIN tool.params}
        /\ tool.phase = "returned" =>
              /\ tool.response.body # "pending"
              /\ (MissingRequired \/ OutsideConstrained)
                    => ~tool.response.success /\ ~tool.vendor_called
              /\ tool.vendor \in {"raises", "returns_none", "unsuccessful_error",
                                  "unsuccessful_no_error"}
                    => ~tool.response.success
              /\ tool.response.success => tool.vendor_called

\* a call with an undeclared argument and without a required parameter has
\* returned
C40_Witness ==
    /\ tool.phase = "returned"
    /\ MissingRequired
    /\ "extra" \in DOMAIN tool.kwargs
    /\ ~tool.response.success

====
